---- MODULE Spec2Model ----
(***************************************************************************)
(* Media Name Extractor API (src/api/media-name-extractor/main.py).        *)
(* Texts are sequences of characters; the backtick is written "BACKTICK".  *)
(***************************************************************************)
EXTENDS Integers, Sequences, FiniteSets, TLC

\* ------------------------------------------------------------------------
\* Bounds
\* ------------------------------------------------------------------------
MaxTok == 3
NumReq == 2

\* ------------------------------------------------------------------------
\* Characters and the str / re primitives used by extract_media_name
\* ------------------------------------------------------------------------
BT == "BACKTICK"
DQ == "\""
SQ == "'"
NL == "\n"
SP == " "

\* str.strip() with no argument and the regex class \s: whitespace
WhiteSpace == {SP, NL, "\t", "\r"}
IsSpace(c) == c \in WhiteSpace

\* the regex class \d
IsDigit(c) == c \in {"0", "1", "2", "3", "4", "5", "6", "7", "8", "9"}

\* the argument of result_text.strip('"\'\n')
QuoteChars == {DQ, SQ, NL}

FENCE == <<BT, BT, BT>>
JSON == <<"j", "s", "o", "n">>

\* s[i:].startswith(lit), positions counted from 1
StartsWithAt(s, i, lit) ==
  /\ i >= 1
  /\ i + Len(lit) - 1 <= Len(s)
  /\ SubSeq(s, i, i + Len(lit) - 1) = lit

\* lit in s
Contains(s, lit) == \E i \in 1..Len(s) : StartsWithAt(s, i, lit)

\* s.strip(chars): drop from both ends the characters of the set cs
RECURSIVE LStripSet(_, _)
LStripSet(s, cs) ==
  IF s # <<>> /\ Head(s) \in cs THEN LStripSet(Tail(s), cs) ELSE s

RECURSIVE RStripSet(_, _)
RStripSet(s, cs) ==
  IF s # <<>> /\ s[Len(s)] \in cs THEN RStripSet(SubSeq(s, 1, Len(s) - 1), cs) ELSE s

StripSet(s, cs) == RStripSet(LStripSet(s, cs), cs)

\* s.strip()
Strip(s) == StripSet(s, WhiteSpace)

\* every character of s[a..b] is whitespace / a digit
AllSpace(s, a, b) == \A k \in a..b : IsSpace(s[k])
AllDigit(s, a, b) == \A k \in a..b : IsDigit(s[k])

\* the regex anchor $ (no MULTILINE): the end of the string, or just before
\* a newline that is the last character
AtDollar(s, p) == p = Len(s) + 1 \/ (p = Len(s) /\ s[p] = NL)

Min(S) == CHOOSE x \in S : \A y \in S : x <= y

\* the longest run of whitespace starting at position p: what a greedy \s*
\* takes first
RECURSIVE SpaceRun(_, _)
SpaceRun(s, p) ==
  IF p >= 1 /\ p <= Len(s) /\ IsSpace(s[p]) THEN 1 + SpaceRun(s, p + 1) ELSE 0

\* re.search(r'```(?:json)?\s*(.*?)\s*```', s, re.DOTALL) tried at position i:
\* the successful assignments <<j, w, n, w2>> of the four quantified parts
\* (j characters of the tag, w of the first \s*, n of the lazy group,
\* w2 of the second \s*)
FenceTries(s, i) ==
  IF ~StartsWithAt(s, i, FENCE) THEN {}
  ELSE UNION {UNION {UNION {
         {<<j, w, n, w2>> : w2 \in {x \in 0..SpaceRun(s, i + 3 + j + w + n) :
                              StartsWithAt(s, i + 3 + j + w + n + x, FENCE)}} :
           n \in 0..(Len(s) + 1 - (i + 3 + j + w))} :
           w \in 0..SpaceRun(s, i + 3 + j)} :
           j \in {0} \cup (IF StartsWithAt(s, i + 3, JSON) THEN {Len(JSON)} ELSE {})}

\* the backtracking order: (?:json)? and \s* are greedy, (.*?) is lazy
FencePrefer(t, u) ==
  \/ t[1] > u[1]
  \/ t[1] = u[1] /\ t[2] > u[2]
  \/ t[1] = u[1] /\ t[2] = u[2] /\ t[3] < u[3]
  \/ t[1] = u[1] /\ t[2] = u[2] /\ t[3] = u[3] /\ t[4] >= u[4]

FenceStarts(s) == {i \in 1..Len(s) : FenceTries(s, i) # {}}

\* match.group(1) of the leftmost match
FenceGroup(s) ==
  LET i == Min(FenceStarts(s))
      T == FenceTries(s, i)
      t == CHOOSE x \in T : \A y \in T : FencePrefer(x, y)
  IN  SubSeq(s, i + 3 + t[1] + t[2], i + 3 + t[1] + t[2] + t[3] - 1)

\* a seeded fault: the code-fence step forgets to take the group
StripFenceKeep(s) == s

\* lines 68-72: remove markdown code blocks if present
StripFence(s) ==
  IF Contains(s, FENCE)
  THEN IF FenceStarts(s) # {} THEN Strip(FenceGroup(s)) ELSE s
  ELSE s
\* r'\s*\(\d{4}\)\s*$' tried at position i: the successful assignments
\* <<w, w2>> of the two \s* parts
ParenYearTries(s, i) ==
  UNION {{<<w, w2>> : w2 \in {x \in 0..SpaceRun(s, i + w + 6) :
                        /\ i + w + 5 <= Len(s)
                        /\ s[i + w] = "("
                        /\ AllDigit(s, i + w + 1, i + w + 4)
                        /\ s[i + w + 5] = ")"
                        /\ AtDollar(s, i + w + 6 + x)}} :
           w \in 0..SpaceRun(s, i)}

\* a seeded fault: the bare-year pattern without its $ anchor
BareYearTriesUnanchored(s, i) ==
  UNION {{<<w, w2>> : w2 \in {x \in 0..SpaceRun(s, i + w + 4) :
                        /\ i + w + 3 <= Len(s)
                        /\ AllDigit(s, i + w, i + w + 3)}} :
           w \in 0..SpaceRun(s, i)}

\* r'\s*\d{4}\s*$' tried at position i
BareYearTries(s, i) ==
  UNION {{<<w, w2>> : w2 \in {x \in 0..SpaceRun(s, i + w + 4) :
                        /\ i + w + 3 <= Len(s)
                        /\ AllDigit(s, i + w, i + w + 3)
                        /\ AtDollar(s, i + w + 4 + x)}} :
           w \in 0..SpaceRun(s, i)}

\* both \s* are greedy
YearPrefer(t, u) == t[1] > u[1] \/ (t[1] = u[1] /\ t[2] >= u[2])

\* re.sub(r'\s*\(\d{4}\)\s*$', '', s): the leftmost match is cut out; the
\* scan resumes after it (RestParenYear), where the pattern needs six more
\* characters
RECURSIVE SubParenYear(_)
SubParenYear(s) ==
  LET starts == {i \in 1..Len(s) : ParenYearTries(s, i) # {}}
  IN  IF starts = {} THEN s
      ELSE LET i == Min(starts)
               T == ParenYearTries(s, i)
               t == CHOOSE x \in T : \A y \in T : YearPrefer(x, y)
               e == i + t[1] + 6 + t[2]
           IN  SubSeq(s, 1, i - 1) \o SubParenYear(SubSeq(s, e, Len(s)))

\* re.sub(r'\s*\d{4}\s*$', '', s)
RECURSIVE SubBareYear(_)
SubBareYear(s) ==
  LET starts == {i \in 1..Len(s) : BareYearTries(s, i) # {}}
  IN  IF starts = {} THEN s
      ELSE LET i == Min(starts)
               T == BareYearTries(s, i)
               t == CHOOSE x \in T : \A y \in T : YearPrefer(x, y)
               e == i + t[1] + 4 + t[2]
           IN  SubSeq(s, 1, i - 1) \o SubBareYear(SubSeq(s, e, Len(s)))

\* line 75
StripQuotes(s) == StripSet(s, QuoteChars)

\* a seeded fault: the parenthesized-year substitution is left out
AfterFenceNoParen(s) == Strip(SubBareYear(StripQuotes(s)))

\* lines 75-80: the cleanup after the code-fence step
AfterFence(s) == Strip(SubBareYear(SubParenYear(StripQuotes(s))))

\* lines 65-80: result["name"] for the reply content
CleanReply(content) == AfterFence(StripFence(Strip(content)))
\* ------------------------------------------------------------------------
\* The reply cleanup on its own: a mocked inference reply is cleaned
\* ------------------------------------------------------------------------
VARIABLES title, wrap, content, name, phase

\* the pieces replies are built from
YEAR == <<"1", "9", "9", "9">>
PYEAR == <<"(">> \o YEAR \o <<")">>
Tokens ==
  {<<"a">>, <<SP>>, <<NL>>, <<DQ>>, <<SQ>>, <<"2">>, YEAR, PYEAR, FENCE, JSON}

RECURSIVE TitlesOf(_)
TitlesOf(n) ==
  IF n = 0 THEN {<<>>}
  ELSE {t \o k : t \in TitlesOf(n - 1), k \in Tokens}

Titles == UNION {TitlesOf(n) : n \in 0..MaxTok}

\* what the mocked reply puts around the title
Wrappers ==
  [raw         |-> <<<<>>, <<>>>>,
   fenced      |-> <<FENCE, FENCE>>,
   jsonfenced  |-> <<FENCE \o JSON \o <<NL>>, <<NL>> \o FENCE>>,
   embedded    |-> <<<<"a", SP>> \o FENCE, FENCE \o <<SP, "a">>>>,
   quotedparen |-> <<<<DQ>>, <<SP>> \o PYEAR \o <<DQ>>>>,
   bareyear    |-> <<<<>>, <<SP>> \o YEAR>>]

\* lines 65-83: response["message"]["content"] is cleaned into result["name"]
CleanStep ==
  /\ phase = "called"
  /\ name' = CleanReply(content)
  /\ phase' = "returned"
  /\ UNCHANGED <<title, wrap, content>>

cvars == <<title, wrap, content, name, phase>>
\* ------------------------------------------------------------------------
\* The HTTP service: requests, the event loop, the inference client
\* ------------------------------------------------------------------------
VARIABLES reqs, pc, loop, chat_calls, list_calls, client_log, resp

svars == <<reqs, pc, loop, chat_calls, list_calls, client_log, resp>>
vars == <<title, wrap, content, name, phase,
          reqs, pc, loop, chat_calls, list_calls, client_log, resp>>

Reqs == 1..NumReq

\* lines 24-25: the defaults of os.getenv
OLLAMA_HOST == "http://192.168.0.162:11434"
MODEL_NAME == "deepseek-r1"

\* the values of q a caller sends, the replies and the errors of the
\* inference client
Qs == {<<>>, <<SP>>, <<"a">>, <<SP, "a">>}
Contents == {<<"a">>, FENCE \o <<"a">> \o FENCE, <<DQ, "a", SP>> \o PYEAR \o <<DQ>>}
Errors == {"connection refused", "timeout"}

NoReq == [path |-> "none", has_q |-> FALSE, q |-> <<>>]
NoLog == [input |-> <<>>, outcome |-> "none", content |-> <<>>, error |-> ""]
NoResp ==
  [status |-> 0, kind |-> "none", original_input |-> <<>>,
   extracted_name |-> <<>>, year |-> "None", media_type |-> "None",
   detail |-> <<>>, ollama_host |-> "", model |-> ""]

Init ==
  /\ reqs = [r \in Reqs |-> NoReq]
  /\ pc = [r \in Reqs |-> "unsent"]
  /\ loop = 0
  /\ chat_calls = [r \in Reqs |-> 0]
  /\ list_calls = [r \in Reqs |-> 0]
  /\ client_log = [r \in Reqs |-> NoLog]
  /\ resp = [r \in Reqs |-> NoResp]
  /\ title = <<>>
  /\ wrap = "raw"
  /\ content = <<>>
  /\ name = <<>>
  /\ phase = "idle"

\* a seeded fault: handlers dispatched to threads, not run on the event loop
LoopFreeThreaded == TRUE

\* lines 89, 95, 117: every handler is a coroutine of the one event loop and
\* has no await, so a handler starts only when no other handler is running
LoopFree == loop = 0

\* a seeded fault: Query(...) without min_length
ValidQNoMin(req) == req.has_q

\* line 96: q is required (...) and min_length=1
ValidQ(req) == req.has_q /\ Len(req.q) >= 1

\* a caller sends a request; it waits for the event loop
Send(r, path, has_q, q) ==
  /\ pc[r] = "unsent"
  /\ reqs' = [reqs EXCEPT ![r] = [path |-> path, has_q |-> has_q, q |-> q]]
  /\ pc' = [pc EXCEPT ![r] = "pending"]
  /\ UNCHANGED <<loop, chat_calls, list_calls, client_log, resp>>

\* lines 88-91
root(r) ==
  /\ pc[r] = "pending"
  /\ reqs[r].path = "/"
  /\ LoopFree
  /\ resp' = [resp EXCEPT ![r] = [NoResp EXCEPT !.status = 200, !.kind = "ok"]]
  /\ pc' = [pc EXCEPT ![r] = "done"]
  /\ UNCHANGED <<reqs, loop, chat_calls, list_calls, client_log>>

\* line 96: the framework rejects the request before extract_name runs
extract_name_invalid(r) ==
  /\ pc[r] = "pending"
  /\ reqs[r].path = "/extract"
  /\ LoopFree
  /\ ~ValidQ(reqs[r])
  /\ resp' = [resp EXCEPT ![r] =
                [NoResp EXCEPT !.status = 422, !.kind = "error",
                               !.detail = <<"validation error">>]]
  /\ pc' = [pc EXCEPT ![r] = "done"]
  /\ UNCHANGED <<reqs, loop, chat_calls, list_calls, client_log>>

\* lines 106, 38-63: extract_name calls extract_media_name(q), which calls
\* client.chat with the prompt that embeds q and blocks the event loop
extract_name_call(r) ==
  /\ pc[r] = "pending"
  /\ reqs[r].path = "/extract"
  /\ LoopFree
  /\ ValidQ(reqs[r])
  /\ loop' = r
  /\ pc' = [pc EXCEPT ![r] = "chat"]
  /\ chat_calls' = [chat_calls EXCEPT ![r] = @ + 1]
  /\ client_log' = [client_log EXCEPT ![r].input = reqs[r].q]
  /\ UNCHANGED <<reqs, list_calls, resp>>

\* a seeded fault: the original input is normalised
ExtractionResponseTrimmed(q, text) ==
  [NoResp EXCEPT !.status = 200, !.kind = "extraction",
                 !.original_input = Strip(q),
                 !.extracted_name = CleanReply(text)]

\* lines 65-83, 108-113: the reply is cleaned and the response is built
ExtractionResponse(q, text) ==
  [NoResp EXCEPT !.status = 200, !.kind = "extraction",
                 !.original_input = q,
                 !.extracted_name = CleanReply(text)]

\* a seeded fault: the failure is swallowed and an empty result returned
ExtractErrorSwallowed(e) ==
  [NoResp EXCEPT !.status = 200, !.kind = "extraction"]

\* line 85
ExtractError(e) ==
  [NoResp EXCEPT !.status = 500, !.kind = "error",
                 !.detail = <<"Error communicating with Ollama: ", e>>]

\* lines 65-83, 108-113: client.chat returns
chat_return(r, text) ==
  /\ pc[r] = "chat"
  /\ client_log' = [client_log EXCEPT ![r].outcome = "reply", ![r].content = text]
  /\ resp' = [resp EXCEPT ![r] = ExtractionResponse(reqs[r].q, text)]
  /\ pc' = [pc EXCEPT ![r] = "done"]
  /\ loop' = 0
  /\ UNCHANGED <<reqs, chat_calls, list_calls>>

\* a seeded fault: a failed chat call is tried a second time
chat_raise_retry(r, e) ==
  /\ pc[r] = "chat"
  /\ client_log' = [client_log EXCEPT ![r].outcome = "raise", ![r].error = e]
  /\ IF chat_calls[r] < 2
     THEN /\ chat_calls' = [chat_calls EXCEPT ![r] = @ + 1]
          /\ UNCHANGED <<resp, pc, loop>>
     ELSE /\ resp' = [resp EXCEPT ![r] = ExtractError(e)]
          /\ pc' = [pc EXCEPT ![r] = "done"]
          /\ loop' = 0
          /\ UNCHANGED chat_calls
  /\ UNCHANGED <<reqs, list_calls>>

\* lines 84-85: client.chat (or reading its reply) raises
chat_raise(r, e) ==
  /\ pc[r] = "chat"
  /\ client_log' = [client_log EXCEPT ![r].outcome = "raise", ![r].error = e]
  /\ resp' = [resp EXCEPT ![r] = ExtractError(e)]
  /\ pc' = [pc EXCEPT ![r] = "done"]
  /\ loop' = 0
  /\ UNCHANGED <<reqs, chat_calls, list_calls>>

\* lines 117-121: health_check calls client.list and blocks the event loop
health_check_call(r) ==
  /\ pc[r] = "pending"
  /\ reqs[r].path = "/health"
  /\ LoopFree
  /\ loop' = r
  /\ pc' = [pc EXCEPT ![r] = "list"]
  /\ list_calls' = [list_calls EXCEPT ![r] = @ + 1]
  /\ UNCHANGED <<reqs, chat_calls, client_log, resp>>

\* lines 122-126
list_return(r) ==
  /\ pc[r] = "list"
  /\ client_log' = [client_log EXCEPT ![r].outcome = "reply"]
  /\ resp' = [resp EXCEPT ![r] =
                [NoResp EXCEPT !.status = 200, !.kind = "healthy",
                               !.ollama_host = OLLAMA_HOST, !.model = MODEL_NAME]]
  /\ pc' = [pc EXCEPT ![r] = "done"]
  /\ loop' = 0
  /\ UNCHANGED <<reqs, chat_calls, list_calls>>

\* line 128
HealthError(e) ==
  [NoResp EXCEPT !.status = 503, !.kind = "error",
                 !.detail = <<"Ollama connection failed: ", e>>]

\* lines 127-128
list_raise(r, e) ==
  /\ pc[r] = "list"
  /\ client_log' = [client_log EXCEPT ![r].outcome = "raise", ![r].error = e]
  /\ resp' = [resp EXCEPT ![r] = HealthError(e)]
  /\ pc' = [pc EXCEPT ![r] = "done"]
  /\ loop' = 0
  /\ UNCHANGED <<reqs, chat_calls, list_calls>>

SendRoot == \E r \in Reqs : Send(r, "/", FALSE, <<>>) /\ UNCHANGED cvars
SendHealth == \E r \in Reqs : Send(r, "/health", FALSE, <<>>) /\ UNCHANGED cvars
SendExtract ==
  \E r \in Reqs :
    /\ \/ Send(r, "/extract", FALSE, <<>>)
       \/ \E q \in Qs : Send(r, "/extract", TRUE, q)
    /\ UNCHANGED cvars
Root == \E r \in Reqs : root(r) /\ UNCHANGED cvars
ExtractInvalid == \E r \in Reqs : extract_name_invalid(r) /\ UNCHANGED cvars
ExtractCall == \E r \in Reqs : extract_name_call(r) /\ UNCHANGED cvars
ChatReturn == \E r \in Reqs : \E text \in Contents : chat_return(r, text) /\ UNCHANGED cvars
ChatRaise == \E r \in Reqs : \E e \in Errors : chat_raise(r, e) /\ UNCHANGED cvars
HealthCall == \E r \in Reqs : health_check_call(r) /\ UNCHANGED cvars
ListReturn == \E r \in Reqs : list_return(r) /\ UNCHANGED cvars
ListRaise == \E r \in Reqs : \E e \in Errors : list_raise(r, e) /\ UNCHANGED cvars

Next ==
  \/ SendRoot
  \/ SendHealth
  \/ SendExtract
  \/ Root
  \/ ExtractInvalid
  \/ ExtractCall
  \/ ChatReturn
  \/ ChatRaise
  \/ HealthCall
  \/ ListReturn
  \/ ListRaise

Spec == Init /\ [][Next]_vars

\* the cleanup on its own: the service is idle
NextClean == CleanStep /\ UNCHANGED svars

\* the service is idle; a mocked reply is about to be cleaned
InitClean ==
  /\ title \in Titles
  /\ wrap \in DOMAIN Wrappers
  /\ content = Wrappers[wrap][1] \o title \o Wrappers[wrap][2]
  /\ name = <<>>
  /\ phase = "called"
  /\ reqs = [r \in Reqs |-> NoReq]
  /\ pc = [r \in Reqs |-> "unsent"]
  /\ loop = 0
  /\ chat_calls = [r \in Reqs |-> 0]
  /\ list_calls = [r \in Reqs |-> 0]
  /\ client_log = [r \in Reqs |-> NoLog]
  /\ resp = [r \in Reqs |-> NoResp]

SpecClean == InitClean /\ [][NextClean]_vars

\* ------------------------------------------------------------------------
\* Properties
\* ------------------------------------------------------------------------
NoEndQuote(s) == s = <<>> \/ (s[1] \notin {DQ, SQ} /\ s[Len(s)] \notin {DQ, SQ})

EndsInBareYear(s) == Len(s) >= 4 /\ AllDigit(s, Len(s) - 3, Len(s))
EndsInParenYear(s) ==
  /\ Len(s) >= 6
  /\ s[Len(s) - 5] = "("
  /\ AllDigit(s, Len(s) - 4, Len(s) - 1)
  /\ s[Len(s)] = ")"
EndsInYear(s) == EndsInBareYear(s) \/ EndsInParenYear(s)

\* two triple backticks that do not overlap
HasCompleteFence(s) ==
  \E i, j \in 1..Len(s) :
    j >= i + 3 /\ StartsWithAt(s, i, FENCE) /\ StartsWithAt(s, j, FENCE)

\* C1: the name of every cleaned reply is trimmed, neither starts nor ends
\* with a quote character and does not end in a 4-digit year, bare or
\* parenthesized.
C1_NameIsClean ==
  phase = "returned" =>
    /\ Strip(name) = name
    /\ NoEndQuote(name)
    /\ ~EndsInYear(name)

\* C2: a /extract request whose q is missing or empty never makes a chat
\* call, and its response, once given, is an error response.
C2_NoCallWithoutQ ==
  \A r \in Reqs :
    (reqs[r].path = "/extract" /\ (~reqs[r].has_q \/ reqs[r].q = <<>>)) =>
      /\ chat_calls[r] = 0
      /\ client_log[r] = NoLog
      /\ pc[r] \in {"pending", "done"}
      /\ pc[r] = "done" => (resp[r].status >= 400 /\ resp[r].kind = "error")

C2_Witness ==
  \E r1, r2 \in Reqs :
    /\ reqs[r1].path = "/extract" /\ ~reqs[r1].has_q /\ resp[r1].status = 422
    /\ reqs[r2].path = "/extract" /\ reqs[r2].has_q /\ reqs[r2].q = <<>>
    /\ resp[r2].status = 422

InDetail(d, e) == \E i \in 1..Len(d) : d[i] = e

\* C3: when the inference client raises, /extract answers 500 and /health
\* answers 503, the detail holds the text of the error, no extraction
\* result is returned and the answer is never 200.
C3_ClientFailureIs5xx ==
  \A r \in Reqs :
    client_log[r].outcome = "raise" =>
      /\ pc[r] = "done"
      /\ resp[r].status # 200
      /\ resp[r].kind = "error"
      /\ resp[r].extracted_name = <<>>
      /\ InDetail(resp[r].detail, client_log[r].error)
      /\ reqs[r].path = "/extract" => resp[r].status = 500
      /\ reqs[r].path = "/health" => resp[r].status = 503

C3_Witness ==
  \E r1, r2 \in Reqs :
    /\ reqs[r1].path = "/extract" /\ client_log[r1].outcome = "raise"
    /\ reqs[r2].path = "/health" /\ client_log[r2].outcome = "raise"
    /\ resp[r1].status = 500 /\ resp[r2].status = 503

OwnResponse(r) ==
  (reqs[r].path = "/extract" /\ resp[r].status = 200) =>
    /\ resp[r].original_input = reqs[r].q
    /\ client_log[r].input = reqs[r].q
    /\ client_log[r].outcome = "reply"
    /\ resp[r].extracted_name = CleanReply(client_log[r].content)

\* C4: every 200 response of /extract carries its own request's raw q as
\* original_input and the cleanup of the reply to its own chat call, and no
\* step of another request changes a response already given.
C4_ResponsesAreIndependent ==
  /\ [](\A r \in Reqs : OwnResponse(r))
  /\ [][\A r \in Reqs : resp[r].status # 0 => resp'[r] = resp[r]]_vars

C4_Witness ==
  \E r1, r2 \in Reqs :
    /\ r1 # r2
    /\ resp[r1].status = 200 /\ resp[r2].status = 200
    /\ reqs[r1].path = "/extract" /\ reqs[r2].path = "/extract"
    /\ reqs[r1].q = <<SP, "a">> /\ reqs[r2].q = <<"a">>
    /\ client_log[r1].content # client_log[r2].content

\* a title the fenced example stands for: no surrounding quotes, no trailing
\* year, no backticks
FencedTitle(t) == NoEndQuote(t) /\ ~EndsInYear(t) /\ ~Contains(t, <<BT>>)

\* the inner content of a block: the text after the optional tag
DropTag(t) == IF StartsWithAt(t, 1, JSON) THEN SubSeq(t, Len(JSON) + 1, Len(t)) ELSE t

\* when there is no complete fence the step changes nothing
C5_NoFenceNoOp ==
  ~HasCompleteFence(content) =>
    /\ StripFence(Strip(content)) = Strip(content)
    /\ name = AfterFence(Strip(content))

\* C5 as stated, read in its favour (over trimmed titles only): a title
\* wrapped in triple backticks yields the title, for every title with no
\* surrounding quotes, no trailing year and no backticks; a reply with no
\* complete fence is left unchanged by the step.
C5_Original ==
  phase = "returned" =>
    /\ (wrap = "fenced" /\ FencedTitle(title) /\ Strip(title) = title)
          => name = title
    /\ C5_NoFenceNoOp

\* C5 amended: the same for every such title that is also trimmed and does
\* not begin with the tag json; whatever surrounds the first block is
\* dropped and the rest of the cleanup runs on the trimmed text after the
\* optional tag.
C5_FenceIsUnwrapped ==
  phase = "returned" =>
    /\ (wrap = "fenced" /\ FencedTitle(title) /\ Strip(title) = title
          /\ ~StartsWithAt(title, 1, JSON)) => name = title
    /\ (wrap = "jsonfenced" /\ FencedTitle(title) /\ Strip(title) = title)
          => name = title
    /\ (wrap \in {"fenced", "embedded"} /\ ~Contains(title, <<BT>>))
          => name = AfterFence(Strip(DropTag(title)))
    /\ C5_NoFenceNoOp

C5_Witness ==
  /\ phase = "returned"
  /\ wrap = "fenced"
  /\ FencedTitle(title) /\ Strip(title) = title /\ ~StartsWithAt(title, 1, JSON)
  /\ Len(title) >= 3
  /\ Contains(title, <<SP>>)
  /\ name = title

\* a title the year examples stand for: trimmed, no leading or trailing
\* quote, not ending in a 4-digit year
YearTitle(t) == Strip(t) = t /\ NoEndQuote(t) /\ ~EndsInYear(t)

\* C6 as stated: for every such title T, the reply "T (YYYY)" (in double
\* quotes) and the reply T YYYY both yield T.
C6_Original ==
  (phase = "returned" /\ wrap \in {"quotedparen", "bareyear"} /\ YearTitle(title))
    => name = title

\* C6 amended: the same for every such title that contains no complete code
\* fence.
C6_QuotesAndYearRemoved ==
  (phase = "returned" /\ wrap \in {"quotedparen", "bareyear"} /\ YearTitle(title)
     /\ ~HasCompleteFence(title))
    => name = title

C6_Witness ==
  /\ phase = "returned"
  /\ wrap = "quotedparen"
  /\ YearTitle(title) /\ ~HasCompleteFence(title)
  /\ Len(title) >= 3
  /\ Len(content) = Len(title) + 9
  /\ name = title

\* C7: no request makes more than one chat call, a request that passed
\* validation has made exactly one, and a request whose call failed is
\* finished with a 500 that carries no result.
C7_NoRetry ==
  \A r \in Reqs :
    /\ chat_calls[r] <= 1
    /\ (reqs[r].path = "/extract" /\ pc[r] \in {"chat", "done"} /\ resp[r].status # 422)
         => chat_calls[r] = 1
    /\ (reqs[r].path = "/extract" /\ client_log[r].outcome = "raise")
         => (pc[r] = "done" /\ resp[r].status = 500 /\ resp[r].extracted_name = <<>>)

C7_Witness ==
  \E r \in Reqs :
    /\ reqs[r].path = "/extract"
    /\ client_log[r].outcome = "raise"
    /\ chat_calls[r] = 1
    /\ pc[r] = "done"

\* a standalone 4-digit year whose digits start at position i
YearAt(s, i) ==
  /\ i >= 1 /\ i + 3 <= Len(s)
  /\ AllDigit(s, i, i + 3)
  /\ (i = 1 \/ ~IsDigit(s[i - 1]))
  /\ (i + 3 = Len(s) \/ ~IsDigit(s[i + 4]))

\* the text after the year at i, after its closing parenthesis when the
\* year is parenthesized
AfterYear(s, i) ==
  IF i > 1 /\ i + 4 <= Len(s) /\ s[i - 1] = "(" /\ s[i + 4] = ")"
  THEN SubSeq(s, i + 5, Len(s))
  ELSE SubSeq(s, i + 4, Len(s))

Blank == WhiteSpace \cup {DQ, SQ}
HasText(s) == \E k \in 1..Len(s) : s[k] \notin Blank

\* C8 as stated, read in its favour (quote characters are not counted as
\* further text, replies with a triple backtick are left aside): every
\* 4-digit year of the reply that is followed by further text occurs in the
\* name.
C8_Original ==
  (phase = "returned" /\ ~Contains(content, FENCE)) =>
    \A i \in 1..Len(content) :
      (YearAt(content, i) /\ HasText(AfterYear(content, i)))
        => Contains(name, SubSeq(content, i, i + 3))

\* s without trailing whitespace and quote characters and without one
\* trailing parenthesized year
Residue(s) ==
  LET r1 == RStripSet(s, Blank)
  IN  IF EndsInParenYear(r1) THEN SubSeq(r1, 1, Len(r1) - 6) ELSE r1

\* C8 amended: in a reply with no complete code fence, every standalone
\* 4-digit year that is followed by text other than whitespace, quote
\* characters and one trailing parenthesized year is kept, in place, in the
\* name.
C8_EmbeddedYearKept ==
  (phase = "returned" /\ ~HasCompleteFence(content)) =>
    \A i \in 1..Len(content) :
      (YearAt(content, i) /\ HasText(Residue(AfterYear(content, i))))
        => \E a \in 1..i : \E b \in (i + 3)..Len(content) :
             name = SubSeq(content, a, b)

C8_Witness ==
  /\ phase = "returned"
  /\ wrap = "bareyear"
  /\ ~HasCompleteFence(content)
  /\ \E i \in 1..Len(title) :
       /\ YearAt(content, i)
       /\ \E k \in (i + 4)..Len(title) : content[k] = "a"
       /\ Contains(name, YEAR)
  /\ Len(name) < Len(Strip(content))

\* C9: the q handed to the inference client is never empty after trimming.
C9_QNonBlank ==
  \A r \in Reqs : chat_calls[r] > 0 => Strip(client_log[r].input) # <<>>

InFlight(r) == pc[r] \in {"chat", "list"}

\* C10: at most one inference-client call is in flight, and while one is, no
\* other request's handler starts or completes.
C10_OneCallAtATime ==
  /\ [](Cardinality({r \in Reqs : InFlight(r)}) <= 1)
  /\ [][\A r \in Reqs : InFlight(r) =>
          \A o \in Reqs \ {r} :
            /\ resp'[o] = resp[o]
            /\ pc'[o] = pc[o] \/ (pc[o] = "unsent" /\ pc'[o] = "pending")]_vars

C10_Witness ==
  \E r, o \in Reqs :
    /\ r # o
    /\ InFlight(r)
    /\ pc[o] = "pending"
    /\ reqs[o].path \in {"/", "/health"}
====
